---- MODULE Spec2Model ----
(***************************************************************************)
(* Model of qlib/contrib/strategy/model_strategy.py:                       *)
(*   TopkDropoutStrategy.generate_order_list  (lines 77-224)               *)
(*   WeightStrategyBase.generate_order_list   (lines 259-294)              *)
(* One behaviour is one call of generate_order_list on one strategy        *)
(* instance: Init draws the instance's configuration, the caller's         *)
(* position, the score snapshot and the venue's tradability; the actions   *)
(* are the statements of the method, one loop iteration per step.          *)
(***************************************************************************)
EXTENDS Integers, Sequences, FiniteSets, TLC

\* ---------------------------------------------------------------- bounds
\* instruments of the universe are 1..NumStocks; the score snapshot's index
\* lists them in this order
NumStocks == 3
\* topk is drawn from 1..MaxTopk
MaxTopk == 2
\* n_drop is drawn from 0..MaxNDrop
MaxNDrop == 2

\* ------------------------------------------------------ program constants
\* hold_thresh=1, the default of __init__
hold_thresh == 1
\* risk_degree=0.95, the default of __init__, in percent
risk_degree_pct == 95

Stocks == 1..NumStocks
\* sample_feature(...) returning None: a snapshot with no entry
None == <<>>
SELL == "SELL"
BUY == "BUY"

VARIABLES
    strategy,            \* class of the instance: "TopkDropout" or "WeightBase"
    topk, n_drop, method_sell, method_buy, only_tradable,   \* self.*
    pred_score,          \* sample_feature(...): None or [Stocks -> score]
    tradable,            \* stocks the exchange reports tradable in the trade window
    current,             \* the caller's position object
    current_temp,        \* the copy made at line 123 (Unbound before)
    current_stock_list,  \* line 129
    cash,                \* line 128 / 193
    last, today, sell, buy,          \* lines 131-165
    sell_order_list, buy_order_list, \* lines 125-126
    value,               \* line 197
    idx,                 \* position of the running for loop
    pc,                  \* statement the call is at
    result               \* how the call ended: [kind, orders, error]

vars == <<strategy, topk, n_drop, method_sell, method_buy, only_tradable,
          pred_score, tradable, current, current_temp, current_stock_list,
          cash, last, today, sell, buy, sell_order_list, buy_order_list,
          value, idx, pc, result>>

config == <<strategy, topk, n_drop, method_sell, method_buy, only_tradable>>
inputs == <<pred_score, tradable>>

\* ------------------------------------------------------- sequence helpers
Min(a, b) == IF a <= b THEN a ELSE b
Max(a, b) == IF a >= b THEN a ELSE b

\* set of the elements of a list
ToSet(l) == {l[i] : i \in 1..Len(l)}

\* Python `x in l`
In(x, l) == \E i \in 1..Len(l) : l[i] = x

\* reversed(l), res[::-1]
Reversed(l) == [i \in 1..Len(l) |-> l[Len(l) + 1 - i]]

\* Python l[:n]; a negative n counts from the end
SliceTo(l, n) ==
    IF n >= 0 THEN SubSeq(l, 1, Min(n, Len(l)))
    ELSE SubSeq(l, 1, Max(0, Len(l) + n))

\* Python l[-n:]; -0 is 0, so n = 0 yields the whole list
SliceLast(l, n) ==
    IF n > 0 THEN SubSeq(l, Max(1, Len(l) - n + 1), Len(l))
    ELSE IF n = 0 THEN l
    ELSE SubSeq(l, Min(0 - n, Len(l)) + 1, Len(l))

\* the ascending list of a set of stocks (pd.Index.union sorts its result)
RECURSIVE Ascending(_)
Ascending(S) ==
    IF S = {} THEN <<>>
    ELSE LET m == CHOOSE x \in S : \A y \in S : x <= y
         IN  <<m>> \o Ascending(S \ {m})

\* Series.sort_values(ascending=False).index over the entries l of the score
\* snapshot: descending score, equal scores keep the order of l
RECURSIVE InsertDesc(_, _, _)
InsertDesc(x, s, score) ==
    IF s = <<>> THEN <<x>>
    ELSE IF score[Head(s)] >= score[x]
         THEN <<Head(s)>> \o InsertDesc(x, Tail(s), score)
         ELSE <<x>> \o s

RECURSIVE sort_values(_, _)
sort_values(l, score) ==
    IF l = <<>> THEN <<>>
    ELSE InsertDesc(l[Len(l)], sort_values(SubSeq(l, 1, Len(l) - 1), score), score)

\* last.union(pd.Index(today)): the other operand when one is empty, else sorted
Union(a, b) ==
    IF Len(b) = 0 THEN a
    ELSE IF Len(a) = 0 THEN b
    ELSE Ascending(ToSet(a) \cup ToSet(b))

\* ------------------------------------------------------------ exchange
\* trade_exchange.is_stock_tradable(stock_id, start_time, end_time)
is_stock_tradable(si) == si \in tradable

\* trade_exchange.get_deal_price: one price unit for every stock
get_deal_price(si) == 1

\* trade_exchange.round_amount_by_trade_unit(amount, factor): whole units
round_amount_by_trade_unit(amount) == amount

\* trade_exchange.deal_order(sell_order, position): the whole amount leaves the
\* position, its value is added to the position's cash; no trade cost
deal_order(order, position) ==
    LET trade_val == order.amount * get_deal_price(order.stock_id)
    IN  [position |->
            [cash       |-> position.cash + trade_val,
             stock_list |-> SelectSeq(position.stock_list,
                                      LAMBDA s : s # order.stock_id),
             amount     |-> [position.amount EXCEPT ![order.stock_id] = 0],
             count      |-> [position.count EXCEPT ![order.stock_id] = 0]],
         trade_val  |-> trade_val,
         trade_cost |-> 0]

\* Order(stock_id, amount, start_time, end_time, direction, factor)
Order(stock_id, amount, direction) ==
    [stock_id |-> stock_id, amount |-> amount, direction |-> direction]

\* ------------------------------------------------------ filter closures
\* the loop of get_first_n under only_tradable (lines 88-97): n is what is
\* still wanted; the loop breaks after an append once cur_n >= n
RECURSIVE first_n_tradable(_, _)
first_n_tradable(l, n) ==
    IF l = <<>> THEN <<>>
    ELSE IF is_stock_tradable(Head(l))
         THEN IF 1 >= n THEN <<Head(l)>>
              ELSE <<Head(l)>> \o first_n_tradable(Tail(l), n - 1)
         ELSE first_n_tradable(Tail(l), n)

\* get_first_n(l, n): lines 87-98 under only_tradable, lines 114-115 otherwise
get_first_n(l, n) ==
    IF only_tradable THEN first_n_tradable(l, n) ELSE SliceTo(l, n)

\* get_last_n that does not cut the list
get_last_n_uncut(l, n) == l

\* get_last_n(l, n): lines 100-101 under only_tradable, lines 117-118 otherwise
get_last_n(l, n) ==
    IF only_tradable THEN Reversed(first_n_tradable(Reversed(l), n))
    ELSE SliceLast(l, n)

\* filter_stock(l): lines 103-110 under only_tradable, lines 120-121 otherwise
filter_stock(l) ==
    IF only_tradable THEN SelectSeq(l, is_stock_tradable) ELSE l

\* np.random.choice(a, size, replace=False): the possible draws; no draw (the
\* empty set) stands for ValueError (size < 0, or size > len(a))
random_choice(a, size) ==
    IF size < 0 \/ size > Len(a) THEN {}
    ELSE {[i \in 1..size |-> a[p[i]]] :
            p \in {q \in [1..size -> 1..Len(a)] :
                     \A i, j \in 1..size : i # j => q[i] # q[j]}}

\* ---------------------------------------------------------------- inputs
\* value of a position variable before its assignment
Unbound ==
    [cash |-> 0, stock_list |-> <<>>,
     amount |-> [s \in Stocks |-> 0], count |-> [s \in Stocks |-> 0]]

\* the call has not ended / returned a list / raised an exception
Running == [kind |-> "running", orders |-> <<>>, error |-> ""]
Returned(orders) == [kind |-> "returned", orders |-> orders, error |-> ""]
Raised(error) == [kind |-> "raised", orders |-> <<>>, error |-> error]

\* pred_score.index
ScoreIndex == [i \in 1..NumStocks |-> i]

\* score snapshots: the index lists the stocks from the best score down; the
\* worst score is 0 and neighbours tie or differ by 1, which gives every
\* pattern of ties and strict differences the comparisons of scores can see
ScoreSnapshots ==
    {f \in [Stocks -> 0..(NumStocks - 1)] :
        /\ f[NumStocks] = 0
        /\ \A a \in 1..(NumStocks - 1) : f[a] - f[a + 1] \in {0, 1}}

\* a position holding the stocks of H, listed ascending or descending, bought
\* hold_thresh periods ago, except stock young (if any), bought in this period
Position(H, descending, young) ==
    [cash       |-> 100,
     stock_list |-> IF descending THEN Reversed(Ascending(H)) ELSE Ascending(H),
     amount     |-> [s \in Stocks |-> IF s \in H THEN 10 ELSE 0],
     count      |-> [s \in Stocks |->
                        IF s \in H /\ s # young THEN hold_thresh ELSE 0]]

\* the venue and the position of a period: at most one stock of the universe
\* is special, either suspended or bought in this period (0: none is)
Periods ==
    LET Special == {sp \in (0..NumStocks) \X (0..NumStocks) : sp[1] = 0 \/ sp[2] = 0}
    IN  {[tradable |-> Stocks \ {sp[1]}, current |-> Position(H, d, sp[2])] :
            H \in SUBSET Stocks, d \in BOOLEAN, sp \in Special}

MethodsBuy == {"top", "random", "middle"}
MethodsSell == {"bottom", "random", "middle"}

Init ==
    /\ strategy \in {"TopkDropout", "WeightBase"}
    /\ topk \in 1..MaxTopk
    /\ n_drop \in 0..MaxNDrop
    /\ method_buy \in MethodsBuy
    /\ method_sell \in MethodsSell
    /\ only_tradable \in BOOLEAN
    /\ strategy = "WeightBase" =>
          /\ topk = 1 /\ n_drop = 0 /\ method_buy = "top"
          /\ method_sell = "bottom" /\ only_tradable = FALSE
    /\ pred_score \in ScoreSnapshots \cup {None}
    /\ \E period \in Periods :
          /\ tradable = period.tradable
          /\ current = period.current
    /\ current_temp = Unbound
    /\ current_stock_list = <<>>
    /\ cash = 0
    /\ last = <<>> /\ today = <<>> /\ sell = <<>> /\ buy = <<>>
    /\ sell_order_list = <<>> /\ buy_order_list = <<>>
    /\ value = 0
    /\ idx = 0
    /\ pc = "start"
    /\ result = Running

\* ------------------------------------------------- TopkDropoutStrategy
\* the values of method_buy lines 133 and 138 accept
buy_methods == {"top", "random"}

\* sell_methods with no else branch raising for other values
sell_methods_any == {"bottom", "random", "middle"}

\* the values of method_sell lines 153 and 155 accept
sell_methods == {"bottom", "random"}

\* line 131: the held stocks by score, best first
Last(position) == sort_values(position.stock_list, pred_score)

\* lines 133-145: the values `today` can take (one, or one per random draw)
Today(last_) ==
    LET n == n_drop + topk - Len(last_) IN
    IF method_buy = "top"
    THEN {get_first_n(
             sort_values(SelectSeq(ScoreIndex, LAMBDA s : ~In(s, last_)), pred_score),
             n)}
    ELSE LET topk_candi == get_first_n(sort_values(ScoreIndex, pred_score), topk)
             candi == SelectSeq(topk_candi, LAMBDA x : ~In(x, last_))
             draws == random_choice(candi, n)
         IN  IF draws = {} THEN {candi} ELSE draws

\* line 150
Comb(last_, today_) == sort_values(Union(last_, today_), pred_score)

\* lines 153-160: the values `sell` can take
Sell(last_, today_) ==
    IF method_sell = "bottom"
    THEN LET bottom == get_last_n(Comb(last_, today_), n_drop)
         IN  {SelectSeq(last_, LAMBDA s : In(s, bottom))}
    ELSE LET candi == filter_stock(last_)
             draws == IF Len(last_) # 0 THEN random_choice(candi, n_drop) ELSE {<<>>}
         IN  IF draws = {} THEN {candi} ELSE draws

\* line 165 without the slice
Buy_uncut(today_, sell_, last_) == today_

\* line 165
Buy(today_, sell_, last_) == SliceTo(today_, Len(sell_) + topk - Len(last_))

\* line 123 without copy.deepcopy: current_temp = current
temp_object_alias == "current"

\* line 123: the object the name current_temp is bound to, a deep copy
\* ("copy", held in variable current_temp) and not the caller's object ("current")
temp_object == "copy"

\* the position the name current_temp refers to
Temp == IF temp_object = "copy" THEN current_temp ELSE current

locals == <<current_temp, current_stock_list, cash, last, today, sell, buy,
            sell_order_list, buy_order_list, value, idx>>

\* lines 81-83: no score snapshot for the period
ReturnEmpty ==
    /\ pc = "start" /\ strategy = "TopkDropout"
    /\ pred_score = None
    /\ pc' = "done" /\ result' = Returned(<<>>)
    /\ UNCHANGED <<config, inputs, current, locals>>

\* lines 123-147 and 153-162 with an unsupported method: NotImplementedError,
\* from line 147 before today is drawn, from line 162 after
RaiseNotImplemented ==
    /\ pc = "start" /\ strategy = "TopkDropout"
    /\ pred_score # None
    /\ method_buy \notin buy_methods \/ method_sell \notin sell_methods
    /\ current_temp' = current
    /\ cash' = current.cash
    /\ current_stock_list' = current.stock_list
    /\ last' = Last(current)
    /\ \E t \in (IF method_buy \in buy_methods THEN Today(Last(current))
                 ELSE {<<>>}) : today' = t
    /\ pc' = "raised" /\ result' = Raised("NotImplementedError")
    /\ UNCHANGED <<config, inputs, current, sell, buy, sell_order_list,
                   buy_order_list, value, idx>>

\* lines 123-165: the copy, then the selection of today, sell and buy
Select ==
    /\ pc = "start" /\ strategy = "TopkDropout"
    /\ pred_score # None
    /\ method_buy \in buy_methods /\ method_sell \in sell_methods
    /\ current_temp' = current
    /\ cash' = current.cash
    /\ current_stock_list' = current.stock_list
    /\ last' = Last(current)
    /\ \E t \in Today(Last(current)) :
         \E s \in Sell(Last(current), t) :
            /\ today' = t
            /\ sell' = s
            /\ buy' = Buy(t, s, Last(current))
    /\ idx' = 1
    /\ pc' = "sell_loop"
    /\ UNCHANGED <<config, inputs, current, sell_order_list, buy_order_list,
                   value, result>>

\* the sell loop running over the selected stocks: for code in sell
sell_iter_selected == sell

\* line 167: the list the sell loop runs over
sell_iter == current_stock_list

\* lines 168-171: the sell loop passes over a stock that is not tradable
sell_not_tradable(code) == ~is_stock_tradable(code)

\* lines 174-175 without the hold limit
too_recent_never(code) == FALSE

\* lines 174-175: the stock was bought fewer than hold_thresh periods ago
too_recent(code) == Temp.count[code] < hold_thresh

\* lines 177-185: the sell order of the whole held amount
sell_order(code) == Order(code, Temp.amount[code], SELL)

\* lines 167-175, one iteration of the sell loop that places no order: the
\* stock is not tradable, is not in sell, or was bought too recently
SellSkip ==
    /\ pc = "sell_loop" /\ idx <= Len(sell_iter)
    /\ LET code == sell_iter[idx] IN
          \/ sell_not_tradable(code)
          \/ ~In(code, sell)
          \/ too_recent(code)
    /\ idx' = idx + 1
    /\ UNCHANGED <<config, inputs, current, current_temp, current_stock_list,
                   cash, last, today, sell, buy, sell_order_list,
                   buy_order_list, value, pc, result>>

\* lines 167-187, one iteration whose order trade_exchange.check_order refuses
SellRefused ==
    /\ pc = "sell_loop" /\ idx <= Len(sell_iter)
    /\ LET code == sell_iter[idx] IN
          /\ ~sell_not_tradable(code)
          /\ In(code, sell)
          /\ ~too_recent(code)
    /\ idx' = idx + 1
    /\ UNCHANGED <<config, inputs, current, current_temp, current_stock_list,
                   cash, last, today, sell, buy, sell_order_list,
                   buy_order_list, value, pc, result>>

\* lines 167-193, one iteration whose order check_order admits: the order is
\* appended and settled on the position current_temp names, its proceeds are
\* added to cash
SellAdmitted ==
    /\ pc = "sell_loop" /\ idx <= Len(sell_iter)
    /\ LET code == sell_iter[idx] IN
          /\ ~sell_not_tradable(code)
          /\ In(code, sell)
          /\ ~too_recent(code)
          /\ LET deal == deal_order(sell_order(code), Temp) IN
                /\ sell_order_list' = Append(sell_order_list, sell_order(code))
                /\ IF temp_object = "copy"
                   THEN current_temp' = deal.position /\ current' = current
                   ELSE current' = deal.position /\ current_temp' = current_temp
                /\ cash' = cash + deal.trade_val - deal.trade_cost
    /\ idx' = idx + 1
    /\ UNCHANGED <<config, inputs, current_stock_list, last, today, sell, buy,
                   buy_order_list, value, pc, result>>

\* line 197: the cash to spend on each stock of buy
buy_value == IF Len(buy) > 0 THEN (cash * risk_degree_pct) \div (100 * Len(buy)) ELSE 0

\* lines 194-197: the sell loop is over
BeginBuy ==
    /\ pc = "sell_loop" /\ idx > Len(sell_iter)
    /\ current_stock_list' = Temp.stock_list
    /\ value' = buy_value
    /\ idx' = 1
    /\ pc' = "buy_loop"
    /\ UNCHANGED <<config, inputs, current, current_temp, cash, last, today,
                   sell, buy, sell_order_list, buy_order_list, result>>

\* the buy loop without the check of lines 204-207
buy_not_tradable_never(code) == FALSE

\* lines 204-207: the buy loop passes over a suspended stock
buy_not_tradable(code) == ~is_stock_tradable(code)

\* lines 202-207, one iteration of `for code in buy` over a suspended stock
BuySkip ==
    /\ pc = "buy_loop" /\ idx <= Len(buy)
    /\ buy_not_tradable(buy[idx])
    /\ idx' = idx + 1
    /\ UNCHANGED <<config, inputs, current, current_temp, current_stock_list,
                   cash, last, today, sell, buy, sell_order_list,
                   buy_order_list, value, pc, result>>

\* lines 208-222: the buy order for one stock
buy_order(code) ==
    Order(code, round_amount_by_trade_unit(value \div get_deal_price(code)), BUY)

\* lines 202-223, one iteration of `for code in buy` that places the order
BuyPlace ==
    /\ pc = "buy_loop" /\ idx <= Len(buy)
    /\ ~buy_not_tradable(buy[idx])
    /\ buy_order_list' = Append(buy_order_list, buy_order(buy[idx]))
    /\ idx' = idx + 1
    /\ UNCHANGED <<config, inputs, current, current_temp, current_stock_list,
                   cash, last, today, sell, buy, sell_order_list, value, pc,
                   result>>

\* line 224 with the operands swapped
order_list_swapped(sells, buys) == buys \o sells

\* line 224: sell_order_list + buy_order_list
order_list(sells, buys) == sells \o buys

\* line 224
Return ==
    /\ pc = "buy_loop" /\ idx > Len(buy)
    /\ result' = Returned(order_list(sell_order_list, buy_order_list))
    /\ pc' = "done"
    /\ UNCHANGED <<config, inputs, current, locals>>

\* -------------------------------------------------- WeightStrategyBase
\* the names bound at module level, lines 1-9, 12 and 227
module_globals ==
    {"copy", "warnings", "np", "pd", "sample_feature", "ModelStrategy", "Order",
     "OrderGenWInteract", "TopkDropoutStrategy", "WeightStrategyBase"}

\* the names generate_order_list has bound when line 280 runs, lines 259-277
weight_locals ==
    {"self", "current", "kwargs", "trade_start_time", "trade_end_time",
     "pred_start_time", "pred_end_time", "pred_score"}

\* the name whose attribute `current` line 280 copies
copied_name == "trade_account"

\* order_generator.generate_order_list_from_target_weight_position(...) on the
\* weights of generate_target_weight_position: one order per stock of the
\* snapshot whose target differs from the holding; the subclass targets an
\* equal amount of every stock with a positive score
weight_orders(position) ==
    LET target(s) == IF pred_score[s] > 0 THEN 10 ELSE 0
        changed == SelectSeq(ScoreIndex, LAMBDA s : target(s) # position.amount[s])
    IN  [i \in 1..Len(changed) |->
            IF target(changed[i]) > position.amount[changed[i]]
            THEN Order(changed[i], target(changed[i]) - position.amount[changed[i]], BUY)
            ELSE Order(changed[i], position.amount[changed[i]] - target(changed[i]), SELL)]

\* lines 274-279: no score snapshot for the period
WeightReturnEmpty ==
    /\ pc = "start" /\ strategy = "WeightBase"
    /\ pred_score = None
    /\ pc' = "done" /\ result' = Returned(<<>>)
    /\ UNCHANGED <<config, inputs, current, locals>>

\* lines 280-294: the name of line 280 is looked up among the function's
\* locals and the module's globals; unbound, the call raises NameError;
\* bound, the position is copied and the order generator's list is returned
WeightGenerate ==
    /\ pc = "start" /\ strategy = "WeightBase"
    /\ pred_score # None
    /\ IF copied_name \in weight_locals \cup module_globals
       THEN /\ current_temp' = current
            /\ pc' = "done"
            /\ result' = Returned(weight_orders(current))
       ELSE /\ current_temp' = current_temp
            /\ pc' = "raised"
            /\ result' = Raised("NameError")
    /\ UNCHANGED <<config, inputs, current, current_stock_list, cash, last,
                   today, sell, buy, sell_order_list, buy_order_list, value, idx>>

Next ==
    \/ ReturnEmpty
    \/ RaiseNotImplemented
    \/ Select
    \/ SellSkip
    \/ SellRefused
    \/ SellAdmitted
    \/ BeginBuy
    \/ BuySkip
    \/ BuyPlace
    \/ Return
    \/ WeightReturnEmpty
    \/ WeightGenerate

Spec == Init /\ [][Next]_vars

\* ================================================================ claims
Topk == strategy = "TopkDropout"

\* the call of TopkDropoutStrategy.generate_order_list is past line 165
Selected ==
    /\ Topk
    /\ pred_score # None
    /\ pc \in {"sell_loop", "buy_loop", "done"}

\* the call returned the list of line 224
ReturnedOrders == Topk /\ pc = "done" /\ pred_score # None

\* the orders placed so far, and the list returned
PlacedOrders == sell_order_list \o buy_order_list \o result.orders

\* the stocks of the orders of one direction, in the order of the list
StocksOf(orders, direction) ==
    LET picked == SelectSeq(orders, LAMBDA o : o.direction = direction)
    IN  [i \in 1..Len(picked) |-> picked[i].stock_id]

\* the stocks of list a appear in the relative order they have in list b
Position1(l, x) == CHOOSE i \in 1..Len(l) : l[i] = x
InOrderOf(a, b) ==
    /\ \A i \in 1..Len(a) : In(a[i], b)
    /\ \A i, j \in 1..Len(a) : i < j => Position1(b, a[i]) < Position1(b, a[j])

\* |sell| + topk - |last|, the slice bound of line 165
K == Len(sell) + topk - Len(last)

\* C1: in the list generate_order_list returns, no SELL order comes after a
\* BUY order
C1_SellsBeforeBuys ==
    Topk /\ result.kind = "returned" =>
        \A i, j \in 1..Len(result.orders) :
            i < j => ~(result.orders[i].direction = BUY /\ result.orders[j].direction = SELL)

\* a returned list with a SELL and a BUY order
C1_Witness ==
    /\ ReturnedOrders
    /\ \E i, j \in 1..Len(result.orders) :
          result.orders[i].direction = SELL /\ result.orders[j].direction = BUY

C4_SellHeldLongEnough ==
    Topk =>
        \A i \in 1..Len(PlacedOrders) :
            PlacedOrders[i].direction = SELL =>
                /\ In(PlacedOrders[i].stock_id, current.stock_list)
                /\ current.count[PlacedOrders[i].stock_id] >= hold_thresh

\* a SELL order was returned while a tradable stock of the sell set, bought
\* in this period, got none
C4_Witness ==
    /\ ReturnedOrders
    /\ \E i \in 1..Len(result.orders) : result.orders[i].direction = SELL
    /\ \E s \in ToSet(sell) : s \in tradable /\ current.count[s] < hold_thresh

\* C5: no order, SELL or BUY, names a stock that is not tradable
C5_OrdersTradable ==
    Topk =>
        \A i \in 1..Len(PlacedOrders) : PlacedOrders[i].stock_id \in tradable

\* with only_tradable off, a suspended stock is in the buy set and the
\* returned list holds the orders of the others
C5_Witness ==
    /\ ReturnedOrders /\ ~only_tradable
    /\ \E s \in ToSet(buy) : s \notin tradable
    /\ Len(result.orders) > 0

\* C6 as stated: SELL orders come in the order of the sell set, BUY orders in
\* the order of the buy set
C6_Original ==
    ReturnedOrders =>
        /\ InOrderOf(StocksOf(result.orders, SELL), sell)
        /\ InOrderOf(StocksOf(result.orders, BUY), buy)

\* C6 amended: SELL orders come in the order the position lists the held
\* stocks, BUY orders in the order of the buy set
C6_SellInLedgerOrder ==
    ReturnedOrders =>
        /\ InOrderOf(StocksOf(result.orders, SELL), current.stock_list)
        /\ InOrderOf(StocksOf(result.orders, BUY), buy)

\* two SELL orders were returned, and the sell set lists the two stocks the
\* other way round than the position does
C6_Witness ==
    /\ ReturnedOrders
    /\ Len(StocksOf(result.orders, SELL)) >= 2
    /\ ~InOrderOf(StocksOf(result.orders, SELL), sell)

Unsupported == method_buy \notin {"top", "random"} \/ method_sell \notin {"bottom", "random"}

\* the call ended in NotImplementedError with no order placed and no
\* settlement on the working position
FailedClean ==
    /\ result = Raised("NotImplementedError")
    /\ sell_order_list = <<>> /\ buy_order_list = <<>>
    /\ current_temp = current

\* C7 as stated: with an unsupported method_buy or method_sell every call
\* fails with the configuration error
C7_Original ==
    Topk /\ Unsupported /\ pc # "start" => FailedClean

\* C7 amended: with an unsupported method and a score snapshot for the
\* period, the call fails with the configuration error
C7_FailsWhenScored ==
    Topk /\ Unsupported /\ pred_score # None /\ pc # "start" => FailedClean

\* the error was raised by the sell branch, after today was drawn
C7_Witness ==
    /\ Topk /\ pc = "raised"
    /\ method_buy = "random" /\ method_sell = "middle"
    /\ Len(current.stock_list) > 0

\* C8: no step of the call changes the caller's position
C8_CallerUnchanged == [][current' = current]_vars

\* a sell was settled on the working copy
C8_Witness ==
    /\ Topk
    /\ Len(sell_order_list) > 0
    /\ current_temp # current
    /\ current_temp.cash > current.cash

\* C9 as stated: with a score snapshot, WeightStrategyBase.generate_order_list
\* returns the order generator's list for a copy of the caller's position
C9_Original ==
    strategy = "WeightBase" /\ pred_score # None /\ pc # "start" =>
        result = Returned(weight_orders(current))

\* C10 as stated: with method_buy = top and method_sell = bottom no sold stock
\* scores strictly higher than a bought one
C10_Original ==
    Selected /\ method_buy = "top" /\ method_sell = "bottom" =>
        \A s \in ToSet(sell) : \A b \in ToSet(buy) : ~(pred_score[s] > pred_score[b])

====
